---- MODULE Spec2Model ----
(***************************************************************************)
(* A model of catchment/models.py: the Catchment admission logic           *)
(* (Catchment.add_site over Site objects and GeoDataFrame geometries), the *)
(* MeasurementSeries / Site.add_measurement series store (pandas Series    *)
(* objects held by reference), and the stateless daily_* aggregations and  *)
(* data_above_threshold over a timestamp-indexed DataFrame.                *)
(*                                                                         *)
(* models.py uses the names gpd and sjoin; they are modelled as            *)
(* geopandas (GeoDataFrame, points_from_xy, from_file) and                 *)
(* geopandas.tools.sjoin (inner join, predicate "intersects").             *)
(***************************************************************************)
EXTENDS Integers, Sequences, FiniteSets, TLC

VARIABLES
    area,        \* Catchment.area: a GeoDataFrame
    sites,       \* Catchment.sites: dict site name -> Site object (reference)
    siteObjs,    \* heap of Site objects, by reference (index): [name, location]
    siteArgs,    \* the (longitude, latitude) each Site was constructed with
    outcome,     \* how the last Catchment.add_site call ended, and for which Site
    seriesObjs,  \* heap of pandas Series objects, by reference: [name, entries]
    measurements,\* Site.measurements: dict id -> MeasurementSeries
    table,       \* a DataFrame: rows of [ts, cells]
    result       \* the value returned by the last table function

vars == <<area, sites, siteObjs, siteArgs, outcome,
          seriesObjs, measurements, table, result>>

catchmentVars == <<area, sites, siteObjs, siteArgs, outcome>>
seriesVars == <<seriesObjs, measurements>>
tableVars == <<table, result>>

(***************************************************************************)
(* Bounds                                                                  *)
(***************************************************************************)
MaxSites == 2       \* Site objects constructed
MaxObjs == 4        \* pandas Series objects allocated
MaxLen == 3         \* entries in one pandas Series
MaxRows == 2        \* rows of the DataFrame

\* Python's None, and a supplied optional argument
None == <<>>
Some(x) == <<x>>

SiteNames == {"S1", "S2"}
Longitudes == {None, Some(0), Some(1)}
Latitudes == {None, Some(0), Some(1), Some(2)}

(***************************************************************************)
(* GeoDataFrame: rows of geometries and a number of columns.  A point is a *)
(* pair <<x, y>>; a polygon is the set of grid points it covers.           *)
(***************************************************************************)
EmptyGeoDataFrame == [geoms |-> <<>>, ncols |-> 0]

\* DataFrame.size: rows times columns
Size(gdf) == Len(gdf.geoms) * gdf.ncols

\* gpd.GeoDataFrame(geometry = gpd.points_from_xy([x], [y])): one row, one column
PointFrame(x, y) == [geoms |-> << <<x, y>> >>, ncols |-> 1]

\* the shapefiles a Catchment can be constructed from, by name
Shapefiles == {"empty.shp", "one.shp", "two.shp"}

\* gpd.GeoDataFrame.from_file(shapefile): one row per feature; the columns are
\* the attribute columns and the geometry column
FromFile(shapefile) ==
    CASE shapefile = "empty.shp" -> [geoms |-> <<>>, ncols |-> 1]
      [] shapefile = "one.shp"   -> [geoms |-> << {<<1, 1>>} >>, ncols |-> 1]
      [] shapefile = "two.shp"   ->
            [geoms |-> << {<<1, 1>>}, {<<1, 1>>, <<0, 1>>, <<0, 2>>} >>, ncols |-> 2]

\* shapely: point intersects polygon
Intersects(point, polygon) == point \in polygon

\* sjoin(left, right): inner join, one row per (left row, right row) pair whose
\* geometries intersect; columns of both frames (index_right replaces the
\* right geometry column)
sjoin(left, right) ==
    LET pairs == {p \in (1..Len(left.geoms)) \X (1..Len(right.geoms)) :
                     Intersects(left.geoms[p[1]], right.geoms[p[2]])}
        order == CHOOSE f \in [1..Cardinality(pairs) -> pairs] :
                     \A i, j \in 1..Cardinality(pairs) : i # j => f[i] # f[j]
    IN [geoms |-> [i \in 1..Cardinality(pairs) |-> left.geoms[order[i][1]]],
        ncols |-> left.ncols + right.ncols]

(***************************************************************************)
(* Python truthiness of an optional number: None and 0 are falsy           *)
(***************************************************************************)
TruthyNotNone(v) == v # None

Truthy(v) == v # None /\ v[1] # 0

(***************************************************************************)
(* Site.__init__(name, longitude, latitude)                                *)
(***************************************************************************)
SiteInit(name, longitude, latitude) ==
    [name |-> name,
     location |-> IF Truthy(longitude) /\ Truthy(latitude)
                  THEN PointFrame(longitude[1], latitude[1])
                  ELSE EmptyGeoDataFrame]

NewSite(name, longitude, latitude) ==
    /\ Len(siteObjs) < MaxSites
    /\ siteObjs' = Append(siteObjs, SiteInit(name, longitude, latitude))
    /\ siteArgs' = Append(siteArgs, <<longitude, latitude>>)
    /\ UNCHANGED <<area, sites, outcome>>
    /\ UNCHANGED <<seriesVars, tableVars>>

(***************************************************************************)
(* Catchment.__init__(name, shapefile)                                     *)
(***************************************************************************)
CatchmentInit(shapefile) ==
    IF shapefile # None THEN FromFile(shapefile[1]) ELSE EmptyGeoDataFrame

(***************************************************************************)
(* Catchment.add_site(new_site)                                            *)
(***************************************************************************)
\* line 145: the containment check
NotWithin(self_area, new_site) ==
    /\ Size(self_area) # 0
    /\ Size(new_site.location) # 0
    /\ Size(sjoin(new_site.location, self_area)) = 0

\* lines 150-153: the scan of the keys of self.sites
AlreadyAdded(self_sites, new_site) ==
    \E site \in DOMAIN self_sites : site = new_site.name

\* the whole method: the sites dict afterwards, and how the call ended
\* (ref is the reference to new_site)
AddSiteOverwriting(self_area, self_sites, new_site, ref) ==
    IF NotWithin(self_area, new_site)
    THEN [sites |-> self_sites, ended |-> "not within catchment"]
    ELSE IF AlreadyAdded(self_sites, new_site)
    THEN [sites |-> [n \in DOMAIN self_sites |->
                        IF n = new_site.name THEN ref ELSE self_sites[n]],
          ended |-> "already added"]
    ELSE [sites |-> self_sites @@ (new_site.name :> ref), ended |-> "added"]

AddSiteNoDuplicateCheck(self_area, self_sites, new_site, ref) ==
    IF NotWithin(self_area, new_site)
    THEN [sites |-> self_sites, ended |-> "not within catchment"]
    ELSE [sites |-> [n \in DOMAIN self_sites \cup {new_site.name} |->
                        IF n = new_site.name THEN ref ELSE self_sites[n]],
          ended |-> "added"]

AddSiteDuplicateCheckFirst(self_area, self_sites, new_site, ref) ==
    IF AlreadyAdded(self_sites, new_site)
    THEN [sites |-> self_sites, ended |-> "already added"]
    ELSE IF NotWithin(self_area, new_site)
    THEN [sites |-> self_sites, ended |-> "not within catchment"]
    ELSE [sites |-> self_sites @@ (new_site.name :> ref), ended |-> "added"]

AddSite(self_area, self_sites, new_site, ref) ==
    IF NotWithin(self_area, new_site)
    THEN [sites |-> self_sites, ended |-> "not within catchment"]
    ELSE IF AlreadyAdded(self_sites, new_site)
    THEN [sites |-> self_sites, ended |-> "already added"]
    ELSE [sites |-> self_sites @@ (new_site.name :> ref), ended |-> "added"]

add_site(ref) ==
    LET r == AddSite(area, sites, siteObjs[ref], ref) IN
    /\ sites' = r.sites
    /\ outcome' = [ended |-> r.ended, site |-> ref]
    /\ UNCHANGED <<area, siteObjs, siteArgs>>
    /\ UNCHANGED <<seriesVars, tableVars>>

\* an empty Python dict
EmptyDict == <<>>

NoOutcome == [ended |-> "none", site |-> 0]

(***************************************************************************)
(* pandas Series objects.  A Series is [name, entries]: name is None or    *)
(* Some(string), entries is a sequence of <<timestamp, value>> pairs.      *)
(***************************************************************************)
MeasurementIds == {"A", "B"}
Units == {None, Some("mm")}
Readings == {<<2, 1>>, <<1, 2>>}

\* the Series a caller constructs: empty, or one reading (longer ones are
\* built by add_measurement)
NewData == {<<>>} \cup {<<r>> : r \in Readings}

\* the name pd.concat gives its result: the common name, else None
ConsensusName(a, b) == IF a.name = b.name THEN a.name ELSE None

RECURSIVE InsertSorted(_, _)
InsertSorted(seq, e) ==
    IF seq = <<>> THEN <<e>>
    ELSE IF e[1] < Head(seq)[1] THEN <<e>> \o seq
    ELSE <<Head(seq)>> \o InsertSorted(Tail(seq), e)

RECURSIVE SortByTime(_)
SortByTime(seq) ==
    IF seq = <<>> THEN <<>>
    ELSE InsertSorted(SortByTime(SubSeq(seq, 1, Len(seq) - 1)), seq[Len(seq)])

RECURSIVE DropDuplicateTimes(_)
DropDuplicateTimes(seq) ==
    IF seq = <<>> THEN <<>>
    ELSE LET init == DropDuplicateTimes(SubSeq(seq, 1, Len(seq) - 1))
             e == seq[Len(seq)]
         IN IF \E i \in 1..Len(init) : init[i][1] = e[1] THEN init
            ELSE Append(init, e)

ConcatSorting(a, b) ==
    [name |-> ConsensusName(a, b), entries |-> SortByTime(a.entries \o b.entries)]

ConcatDroppingDuplicates(a, b) ==
    [name |-> ConsensusName(a, b),
     entries |-> DropDuplicateTimes(a.entries \o b.entries)]

\* pd.concat([a, b]): a new Series, the entries of a followed by those of b
Concat(a, b) ==
    [name |-> ConsensusName(a, b), entries |-> a.entries \o b.entries]

\* pd.Series(data): a new object, not yet named
NewSeries(entries) ==
    /\ Len(seriesObjs) < MaxObjs
    /\ seriesObjs' = Append(seriesObjs, [name |-> None, entries |-> entries])
    /\ UNCHANGED measurements
    /\ UNCHANGED <<catchmentVars, tableVars>>

(***************************************************************************)
(* MeasurementSeries: [series (a reference), name, units]                  *)
(***************************************************************************)
\* MeasurementSeries.__init__(series, name, units): the heap and the new object.
\* self.series = series keeps the caller's object; self.series.name = self.name
\* writes to it.
MeasurementSeriesInit(heap, series, name, units) ==
    [heap |-> [heap EXCEPT ![series].name = Some(name)],
     self |-> [series |-> series, name |-> name, units |-> units]]

\* MeasurementSeries.add_measurement(data): self.series becomes a new object
MeasurementSeriesAdd(heap, self, data) ==
    LET new == Len(heap) + 1
        joined == Concat(heap[self.series], heap[data])
    IN [heap |-> Append(heap, [joined EXCEPT !.name = Some(self.name)]),
        self |-> [self EXCEPT !.series = new]]

\* the concatenation fits the model's bounds
CanConcat(self, data) ==
    /\ Len(seriesObjs) < MaxObjs
    /\ Len(seriesObjs[self.series].entries) + Len(seriesObjs[data].entries) <= MaxLen

\* a direct call of add_measurement on the MeasurementSeries registered under id
MeasurementSeries_add_measurement(id, data) ==
    /\ id \in DOMAIN measurements
    /\ CanConcat(measurements[id], data)
    /\ LET r == MeasurementSeriesAdd(seriesObjs, measurements[id], data) IN
         /\ seriesObjs' = r.heap
         /\ measurements' = [measurements EXCEPT ![id] = r.self]
    /\ UNCHANGED <<catchmentVars, tableVars>>

(***************************************************************************)
(* Site.add_measurement(measurement_id, data, units)                       *)
(***************************************************************************)
SiteAddMeasurement(heap, self_measurements, measurement_id, data, units) ==
    IF measurement_id \in DOMAIN self_measurements
    THEN LET r == MeasurementSeriesAdd(heap, self_measurements[measurement_id], data)
         IN [heap |-> r.heap,
             measurements |-> [self_measurements EXCEPT ![measurement_id] = r.self]]
    ELSE LET r == MeasurementSeriesInit(heap, data, measurement_id, units)
         IN [heap |-> r.heap,
             measurements |-> self_measurements @@ (measurement_id :> r.self)]

Site_add_measurement(measurement_id, data, units) ==
    /\ measurement_id \in DOMAIN measurements
          => CanConcat(measurements[measurement_id], data)
    /\ LET r == SiteAddMeasurement(seriesObjs, measurements, measurement_id, data, units)
       IN /\ seriesObjs' = r.heap
          /\ measurements' = r.measurements
    /\ UNCHANGED <<catchmentVars, tableVars>>


(***************************************************************************)
(* DataFrames.  A table is a sequence of rows [ts, cells]: ts is the       *)
(* timestamp <<date, hour>> of the row index, cells maps each column to    *)
(* NaN (an absent cell) or Some(value).                                    *)
(***************************************************************************)
NaN == <<>>

Columns == {"A", "B"}
Timestamps == {<<1, 0>>, <<1, 1>>, <<2, 0>>}
Values == {1, 2}
Thresholds == {1, 2}
Cells == {NaN} \cup {Some(v) : v \in Values}
TableRows == [ts : Timestamps, cells : [Columns -> Cells]]
Tables == UNION {[1..n -> TableRows] : n \in 0..MaxRows}

DateOfKeepingTime(ts) == ts[1] * 24 + ts[2]

\* data.index.date: the calendar date of a timestamp
DateOf(ts) == ts[1]

\* the group keys of data.groupby(data.index.date): the distinct dates, ascending
GroupKeys(data) ==
    LET keys == {DateOf(data[i].ts) : i \in 1..Len(data)}
    IN CHOOSE seq \in [1..Cardinality(keys) -> keys] :
           \A i, j \in 1..Cardinality(keys) : i < j => seq[i] < seq[j]

\* the cells of one column in the rows of one group, in row order
RECURSIVE GroupColumn(_, _, _)
GroupColumn(data, key, column) ==
    IF data = <<>> THEN <<>>
    ELSE LET rest == GroupColumn(Tail(data), key, column)
         IN IF DateOf(Head(data).ts) = key
            THEN <<Head(data).cells[column]>> \o rest
            ELSE rest

RECURSIVE PresentFillingZero(_)
PresentFillingZero(cells) ==
    IF cells = <<>> THEN <<>>
    ELSE IF Head(cells) = NaN THEN <<0>> \o PresentFillingZero(Tail(cells))
    ELSE <<Head(cells)[1]>> \o PresentFillingZero(Tail(cells))

\* the present values of a sequence of cells (skipna)
RECURSIVE Present(_)
Present(cells) ==
    IF cells = <<>> THEN <<>>
    ELSE IF Head(cells) = NaN THEN Present(Tail(cells))
    ELSE <<Head(cells)[1]>> \o Present(Tail(cells))

RECURSIVE SumOf(_)
SumOf(values) == IF values = <<>> THEN 0 ELSE Head(values) + SumOf(Tail(values))

MaxOf(values) ==
    CHOOSE m \in {values[i] : i \in 1..Len(values)} :
        \A i \in 1..Len(values) : values[i] <= m

MinOf(values) ==
    CHOOSE m \in {values[i] : i \in 1..Len(values)} :
        \A i \in 1..Len(values) : values[i] >= m

\* GroupBy.sum(): the sum of the present values; min_count = 0, so a group
\* with none sums to 0
GroupSum(cells) == Some(SumOf(Present(cells)))

\* GroupBy.mean(): the sum over the count of the present values, as the
\* fraction [num, den]; NaN for a group with none
GroupMean(cells) ==
    IF Present(cells) = <<>> THEN NaN
    ELSE Some([num |-> SumOf(Present(cells)), den |-> Len(Present(cells))])

\* GroupBy.max() and GroupBy.min(): NaN for a group with no present value
GroupMax(cells) == IF Present(cells) = <<>> THEN NaN ELSE Some(MaxOf(Present(cells)))

GroupMin(cells) == IF Present(cells) = <<>> THEN NaN ELSE Some(MinOf(Present(cells)))

\* GroupBy.count(): the number of present values
GroupCountAll(cells) == Len(cells)

GroupCount(cells) == Len(Present(cells))

\* data.groupby(data.index.date).<reducer>(): one row per group key
Aggregate(data, reducer) ==
    LET keys == GroupKeys(data)
        Reduce(cells) ==
            CASE reducer = "sum"   -> GroupSum(cells)
              [] reducer = "mean"  -> GroupMean(cells)
              [] reducer = "max"   -> GroupMax(cells)
              [] reducer = "min"   -> GroupMin(cells)
              [] reducer = "count" -> GroupCount(cells)
    IN [i \in 1..Len(keys) |->
           [date |-> keys[i],
            cells |-> [c \in Columns |-> Reduce(GroupColumn(data, keys[i], c))]]]

daily_total_fn(data) == Aggregate(data, "sum")
daily_mean_fn(data) == Aggregate(data, "mean")
daily_max_fn(data) == Aggregate(data, "max")
daily_min_fn(data) == Aggregate(data, "min")
daily_count_fn(data) == Aggregate(data, "count")

\* x > threshold on a cell: a comparison with NaN is False
GreaterOrEqual(x, threshold) == x # NaN /\ x[1] >= threshold

Greater(x, threshold) == x # NaN /\ x[1] > threshold

\* list(map(lambda x: x > threshold, data[site_id]))
data_above_threshold_fn(site_id, data, threshold) ==
    [i \in 1..Len(data) |-> Greater(data[i].cells[site_id], threshold)]

NoResult == [op |-> "none"]

Returns(r) ==
    /\ result = NoResult
    /\ result' = r
    /\ UNCHANGED table
    /\ UNCHANGED <<catchmentVars, seriesVars>>

daily_total == Returns([op |-> "daily_total", value |-> daily_total_fn(table)])
daily_mean == Returns([op |-> "daily_mean", value |-> daily_mean_fn(table)])
daily_max == Returns([op |-> "daily_max", value |-> daily_max_fn(table)])
daily_min == Returns([op |-> "daily_min", value |-> daily_min_fn(table)])
daily_count == Returns([op |-> "daily_count", value |-> daily_count_fn(table)])

data_above_threshold(site_id, threshold) ==
    Returns([op |-> "data_above_threshold", site_id |-> site_id,
             threshold |-> threshold,
             value |-> data_above_threshold_fn(site_id, table, threshold)])

(***************************************************************************)
(* Specifications                                                          *)
(***************************************************************************)
CatchmentStart(shapefile) ==
    /\ area = CatchmentInit(shapefile)
    /\ sites = EmptyDict
    /\ siteObjs = <<>>
    /\ siteArgs = <<>>
    /\ outcome = NoOutcome

SeriesStart ==
    /\ seriesObjs = <<>>
    /\ measurements = EmptyDict

TableStart(data) ==
    /\ table = data
    /\ result = NoResult

\* a Catchment constructed with or without a shapefile, then any Sites
\* constructed and offered to it
InitCatchment ==
    /\ \E shapefile \in {None} \cup {Some(f) : f \in Shapefiles} :
           CatchmentStart(shapefile)
    /\ SeriesStart
    /\ TableStart(<<>>)

NextCatchment ==
    \/ \E name \in SiteNames, longitude \in Longitudes, latitude \in Latitudes :
           NewSite(name, longitude, latitude)
    \/ \E ref \in 1..Len(siteObjs) : add_site(ref)

SpecCatchment == InitCatchment /\ [][NextCatchment]_vars

\* one Site with no measurements, then any Series constructed and added
InitSeries ==
    /\ CatchmentStart(None)
    /\ SeriesStart
    /\ TableStart(<<>>)

NextSeries ==
    \/ \E entries \in NewData : NewSeries(entries)
    \/ \E id \in MeasurementIds, data \in 1..Len(seriesObjs), units \in Units :
           Site_add_measurement(id, data, units)
    \/ \E id \in MeasurementIds, data \in 1..Len(seriesObjs) :
           MeasurementSeries_add_measurement(id, data)

SpecSeries == InitSeries /\ [][NextSeries]_vars

\* any table, then one of the table functions applied to it
InitTable ==
    /\ CatchmentStart(None)
    /\ SeriesStart
    /\ \E data \in Tables : TableStart(data)

NextTable ==
    \/ daily_total
    \/ daily_mean
    \/ daily_max
    \/ daily_min
    \/ daily_count
    \/ \E site_id \in Columns, threshold \in Thresholds :
           data_above_threshold(site_id, threshold)

SpecTable == InitTable /\ [][NextTable]_vars

(***************************************************************************)
(* Catchment.add_site                                                      *)
(***************************************************************************)
Refusals == {"not within catchment", "already added"}

\* the area and the location are defined when their frames are not empty
AreaDefined == Size(area) # 0
LocationDefined(ref) == Size(siteObjs[ref].location) # 0

\* the point of a located Site lies in some polygon of the area
PointInArea(ref) ==
    \E i \in 1..Len(area.geoms) : siteObjs[ref].location.geoms[1] \in area.geoms[i]

\* C1: an add_site call ends in "not within catchment", "already added" or
\* by adding, never by raising; when it ends in a refusal the sites dict
\* (keys and the Site stored under each) is as it was before the call.
C1_RefusalLeavesSitesUnchanged ==
    [][\A ref \in 1..Len(siteObjs) :
          add_site(ref) =>
              /\ outcome'.ended \in Refusals \cup {"added"}
              /\ outcome'.ended \in Refusals => sites' = sites]_vars

\* a candidate refused as outside the area by a catchment that holds a
\* site already
C1_Witness ==
    /\ outcome.ended = "not within catchment"
    /\ sites # EmptyDict
    /\ siteObjs[outcome.site].name \notin DOMAIN sites

\* C2: the entry under a name is a Site of that name, and once added it
\* stays, the same object; an add_site for a name already present does not
\* end by adding and leaves the dict as it was.
C2_OneEntryPerNameFirstWins ==
    [][/\ \A n \in DOMAIN sites : n \in DOMAIN sites' /\ sites'[n] = sites[n]
       /\ \A n \in DOMAIN sites' : siteObjs'[sites'[n]].name = n
       /\ \A ref \in 1..Len(siteObjs) :
             add_site(ref) /\ siteObjs[ref].name \in DOMAIN sites =>
                 outcome'.ended \in Refusals /\ sites' = sites]_vars

\* a second Site object of a name already present was refused as already
\* added, and the first one is still the entry
C2_Witness ==
    /\ outcome.ended = "already added"
    /\ siteObjs[outcome.site].name \in DOMAIN sites
    /\ sites[siteObjs[outcome.site].name] # outcome.site

\* C3: add_site ends in "not within catchment" exactly when the area is
\* defined, the candidate's location is defined and its point lies in no
\* polygon of the area, whether or not the name is present; otherwise a
\* candidate whose name is not present is added.
C3_NotWithinExactly ==
    [][\A ref \in 1..Len(siteObjs) :
          add_site(ref) =>
              LET outside == AreaDefined /\ LocationDefined(ref) /\ ~PointInArea(ref)
                  name == siteObjs[ref].name
              IN /\ (outcome'.ended = "not within catchment") <=> outside
                 /\ ~outside /\ name \notin DOMAIN sites =>
                        /\ outcome'.ended = "added"
                        /\ sites' = sites @@ (name :> ref)]_vars

\* a candidate outside the area was refused as not within the catchment
\* although its name was present as well
C3_Witness ==
    /\ outcome.ended = "not within catchment"
    /\ siteObjs[outcome.site].name \in DOMAIN sites

\* C10: a Site's location is defined exactly when both longitude and
\* latitude were supplied and neither is 0; a Site constructed with
\* longitude 0 or latitude 0 is not refused as outside the area.
C10_LocationDefinedIffTruthy ==
    /\ \A ref \in 1..Len(siteObjs) :
          LocationDefined(ref) <=>
              /\ siteArgs[ref][1] \notin {None, Some(0)}
              /\ siteArgs[ref][2] \notin {None, Some(0)}
    /\ outcome.ended = "not within catchment" =>
          /\ Some(0) # siteArgs[outcome.site][1]
          /\ Some(0) # siteArgs[outcome.site][2]

\* a Site constructed with longitude 0 and a latitude, so at a point in no
\* polygon of the defined area, was added
C10_Witness ==
    /\ outcome.ended = "added"
    /\ AreaDefined
    /\ siteArgs[outcome.site][1] = Some(0)
    /\ siteArgs[outcome.site][2] \notin {None, Some(0)}
    /\ \A i \in 1..Len(area.geoms) :
          <<0, siteArgs[outcome.site][2][1]>> \notin area.geoms[i]

(***************************************************************************)
(* MeasurementSeries and Site.add_measurement                              *)
(***************************************************************************)
\* the stored series of the MeasurementSeries registered under id
StoredSeries(id) == seriesObjs[measurements[id].series]

\* C4: the name of the stored series of every MeasurementSeries is the
\* MeasurementSeries' own name.
C4_SeriesNameIsName ==
    \A id \in DOMAIN measurements : StoredSeries(id).name = Some(measurements[id].name)

\* C5: add_measurement(data) makes the stored series the stored series
\* before the call followed by the entries of data, as given; and no step
\* removes, reorders or changes an entry a stored series already has.
C5_PureAppend ==
    [][/\ \A id \in DOMAIN measurements, data \in 1..Len(seriesObjs) :
             (\/ MeasurementSeries_add_measurement(id, data)
              \/ \E units \in Units : Site_add_measurement(id, data, units))
             => /\ StoredSeries(id)'.entries =
                       StoredSeries(id).entries \o seriesObjs[data].entries
                /\ Len(StoredSeries(id)'.entries) =
                       Len(StoredSeries(id).entries) + Len(seriesObjs[data].entries)
       /\ \A id \in DOMAIN measurements :
             /\ id \in DOMAIN measurements'
             /\ Len(StoredSeries(id).entries) <= Len(StoredSeries(id)'.entries)
             /\ SubSeq(StoredSeries(id)'.entries, 1, Len(StoredSeries(id).entries))
                    = StoredSeries(id).entries]_vars

\* a stored series built by appending that holds one timestamp twice and
\* is not in time order
C5_Witness ==
    \E id \in DOMAIN measurements :
        LET e == StoredSeries(id).entries IN
        /\ \E i, j \in 1..Len(e) : i < j /\ e[i][1] = e[j][1]
        /\ \E i, j \in 1..Len(e) : i < j /\ e[i][1] > e[j][1]

\* what a measurement of the site holds: its name, its units, and the name
\* and entries of its stored series
MeasurementView(id) ==
    [name |-> measurements[id].name,
     units |-> measurements[id].units,
     series_name |-> StoredSeries(id).name,
     entries |-> StoredSeries(id).entries]

\* C6: Site.add_measurement registers a new MeasurementSeries, with the
\* units given, only for an id not yet registered; for a registered id it
\* appends and keeps the units; and it modifies no other measurement.
C6_AddMeasurementFrame ==
    [][\A id \in MeasurementIds, data \in 1..Len(seriesObjs), units \in Units :
          Site_add_measurement(id, data, units) =>
              /\ DOMAIN measurements' = DOMAIN measurements \cup {id}
              /\ id \notin DOMAIN measurements =>
                     /\ measurements'[id].units = units
                     /\ StoredSeries(id)'.entries = seriesObjs[data].entries
              /\ id \in DOMAIN measurements =>
                     /\ measurements'[id].units = measurements[id].units
                     /\ StoredSeries(id)'.entries =
                            StoredSeries(id).entries \o seriesObjs[data].entries
              /\ \A other \in DOMAIN measurements \ {id} :
                     MeasurementView(other)' = MeasurementView(other)]_vars

\* the part of C6 apart from the name of the other measurements' series:
\* units are those of the first call, and the other measurements keep their
\* MeasurementSeries fields and their entries
C6_UnitsAndEntriesFrame ==
    [][\A id \in MeasurementIds, data \in 1..Len(seriesObjs), units \in Units :
          Site_add_measurement(id, data, units) =>
              /\ DOMAIN measurements' = DOMAIN measurements \cup {id}
              /\ id \notin DOMAIN measurements => measurements'[id].units = units
              /\ id \in DOMAIN measurements =>
                     measurements'[id].units = measurements[id].units
              /\ \A other \in DOMAIN measurements \ {id} :
                     /\ measurements'[other] = measurements[other]
                     /\ StoredSeries(other)'.entries = StoredSeries(other).entries]_vars

(***************************************************************************)
(* daily_total, daily_mean, daily_max, daily_min, daily_count and          *)
(* data_above_threshold                                                    *)
(***************************************************************************)
\* the rows of the table on a calendar date with a present value in a column
PresentOn(date, column) ==
    {i \in 1..Len(table) : table[i].ts[1] = date /\ table[i].cells[column] # NaN}

\* a row of the result for a date on which a column has no present value
AbsentGroup(i, column) ==
    /\ i \in 1..Len(result.value)
    /\ PresentOn(result.value[i].date, column) = {}

\* C7 as stated: where a column has no present value on a date, total,
\* mean, max and min give an absent cell and count gives 0.
C7_AbsentGroupAllAbsent ==
    \A c \in Columns :
        /\ result.op \in {"daily_total", "daily_mean", "daily_max", "daily_min"} =>
              \A i \in 1..Len(result.value) :
                  AbsentGroup(i, c) => result.value[i].cells[c] = NaN
        /\ result.op = "daily_count" =>
              \A i \in 1..Len(result.value) :
                  AbsentGroup(i, c) => result.value[i].cells[c] = 0

\* C7 amended: where a column has no present value on a date, mean, max
\* and min give an absent cell, total gives 0 and count gives 0.
C7_AbsentGroupTotalZero ==
    \A c \in Columns :
        /\ result.op \in {"daily_mean", "daily_max", "daily_min"} =>
              \A i \in 1..Len(result.value) :
                  AbsentGroup(i, c) => result.value[i].cells[c] = NaN
        /\ result.op = "daily_total" =>
              \A i \in 1..Len(result.value) :
                  AbsentGroup(i, c) => result.value[i].cells[c] = Some(0)
        /\ result.op = "daily_count" =>
              \A i \in 1..Len(result.value) :
                  AbsentGroup(i, c) => result.value[i].cells[c] = 0

\* daily_total of a table in which a column has no present value on a date
\* where the other column has one
C7_Witness ==
    /\ result.op = "daily_total"
    /\ \E i \in 1..Len(result.value), c, d \in Columns :
          /\ AbsentGroup(i, c)
          /\ PresentOn(result.value[i].date, d) # {}

\* C8: daily_count returns one row per distinct calendar date of the
\* table, with the table's columns, and each cell is the number of present
\* values of that column on that date.
C8_DailyCount ==
    result.op = "daily_count" =>
        LET out == result.value
            dates == {table[i].ts[1] : i \in 1..Len(table)}
        IN /\ {out[i].date : i \in 1..Len(out)} = dates
           /\ Len(out) = Cardinality(dates)
           /\ \A i \in 1..Len(out) :
                 /\ DOMAIN out[i].cells = Columns
                 /\ \A c \in Columns :
                       out[i].cells[c] = Cardinality(PresentOn(out[i].date, c))

\* daily_count of two rows at different times of one date, where a column
\* has one present and one absent value
C8_Witness ==
    /\ result.op = "daily_count"
    /\ Len(table) > 1
    /\ \E i, j \in 1..Len(table) :
          /\ table[i].ts[1] = table[j].ts[1]
          /\ table[i].ts[2] # table[j].ts[2]
    /\ \E c \in Columns :
          /\ result.value[1].cells[c] = 1
          /\ \E i \in 1..Len(table) : table[i].cells[c] = NaN

\* C9: data_above_threshold returns one boolean per row, in row order:
\* FALSE for an absent cell and for a cell equal to or below the threshold,
\* TRUE for a cell above it.
C9_AboveThreshold ==
    result.op = "data_above_threshold" =>
        /\ Len(result.value) = Len(table)
        /\ \A i \in 1..Len(table) :
              LET x == table[i].cells[result.site_id] IN
              /\ x = NaN => result.value[i] = FALSE
              /\ x # NaN /\ x[1] = result.threshold => result.value[i] = FALSE
              /\ x # NaN /\ x[1] < result.threshold => result.value[i] = FALSE
              /\ x # NaN /\ x[1] > result.threshold => result.value[i] = TRUE

\* a column with an absent cell and then a cell above the threshold, or
\* with a cell equal to the threshold and then one above it
C9_Witness ==
    /\ result.op = "data_above_threshold"
    /\ Len(table) > 1
    /\ table[1].cells[result.site_id] \in {NaN, Some(result.threshold)}
    /\ table[2].cells[result.site_id] # NaN
    /\ table[2].cells[result.site_id][1] > result.threshold
    /\ result.value = <<FALSE, TRUE>>

====
